---- MODULE Spec2Model ----
(***************************************************************************)
(* Resume Draft Reconciler of seekr (web/src/pages/ResumeBuilder.tsx) with *)
(* its collaborators: the TanStack Query hooks of hooks/useResumes.ts and  *)
(* hooks/useUserSettings.ts, the chat hook hooks/useChat.ts, the name      *)
(* modal and the browser state (URL query parameter, localStorage).        *)
(*                                                                         *)
(* Every await of a handler is a separate step: the request is issued in   *)
(* one action and resolved (fulfilled or rejected) in another, so user     *)
(* events, query refetches and chat responses interleave with it.  React   *)
(* effects run in the commit of the step that changes their dependencies.  *)
(* The Resume Store and the Setting Store (the backend) follow the HTTP    *)
(* contract of the specification.                                          *)
(*                                                                         *)
(* Specifications:                                                         *)
(*   Spec       one page load on an empty store, all editing operations    *)
(*   SpecDraft  the same operations, starting from a drafted resume        *)
(*   SpecLoad   page loads at chosen addresses on a store with resumes     *)
(*   SpecChat   chat, selection and saving on a store with resumes         *)
(*   SpecRename   renaming and the name prompt on a store with resumes     *)
(*   SpecStorage  a localStorage that throws or holds a corrupt entry      *)
(*   SpecSetting  the preview's Save of the snapshot to the Setting Store  *)
(***************************************************************************)
EXTENDS Integers, Sequences, FiniteSets

\* ------------------------------------------------------------------ bounds
MaxId == 2          \* ids the Resume Store hands out (creates per run)
MaxClock == 2       \* server timestamps (creates + updates per run)
MaxSends == 1       \* chat messages sent per run
MaxLoads == 1       \* page loads after the first one per run
MaxFaults == 1      \* requests that are rejected per run

\* ------------------------------------------------------ values and domains
Undef == -1         \* JavaScript undefined for number | undefined
NaN == -2           \* result of parseInt on a non-number

Ids == 1..MaxId

\* JSON documents are named by tokens; Doc gives the document itself as the
\* ordered list of its key/value pairs (the order JSON.stringify emits).
Null == "null"
EmptyObj == "{}"
Contents == {"c1", "c2"}

Doc(c) ==
  CASE c = "c1"  -> << <<"firstName", "Ann">> >>
    [] c = "c2"  -> << <<"firstName", "Bob">>, <<"lastName", "Lee">> >>
    [] OTHER     -> << >>

Names == {"A"}
\* texts typed into input#resume-name
NameInputs == {<<>>, <<" ">>, <<"A">>, <<" ", "A", " ">>}
IsSpace(c) == c = " "
\* the typed texts that hold a name
TypedNames == {<<"A">>, <<" ", "A", " ">>}

\* the name of the resumes the store holds when the page is opened
StoredName == "R"

\* the response text of the AI service ("" when it sends none) and its
\* status message
Responses == {"", "r"}
StatusMessage == "ok"

\* texts a user can put in ?selectedResume=
UrlTexts == { <<>>, <<"0">>, <<"x">>, <<"1", "x">> }
NoParam == [present |-> FALSE, text |-> <<>>]

NoData == [name |-> "", resume_json |-> Null, updated_at |-> -1]
NoSetting == [present |-> FALSE, value |-> <<>>]
Idle == [kind |-> "idle", id |-> Undef, name |-> "", resume_json |-> Null,
         chat |-> <<>>, flag |-> FALSE]

\* ------------------------------------------------------------ conversions
Digits == <<"0", "1", "2", "3", "4", "5", "6", "7", "8", "9">>
IsDigit(ch) == \E i \in 1..10 : Digits[i] = ch
DigitVal(ch) == (CHOOSE i \in 1..10 : Digits[i] = ch) - 1

RECURSIVE NumPrefix(_, _)
\* value of the leading digits of s, acc the value read so far
NumPrefix(s, acc) ==
  IF s = <<>> \/ ~IsDigit(Head(s)) THEN acc
  ELSE NumPrefix(Tail(s), acc * 10 + DigitVal(Head(s)))

\* parseInt(s, 10): the leading digits, NaN when there are none
ParseInt(s) ==
  IF s = <<>> \/ ~IsDigit(Head(s)) THEN NaN ELSE NumPrefix(s, 0)

RECURSIVE ToString(_)
\* Number.prototype.toString() of a non-negative integer
ToString(n) ==
  IF n < 10 THEN <<Digits[n + 1]>>
  ELSE ToString(n \div 10) \o <<Digits[(n % 10) + 1]>>

\* JavaScript truthiness of a number | undefined
Truthy(n) == n # Undef /\ n # NaN /\ n # 0

\* JSON.stringify of a document: its pairs in insertion order
Stringify(c) == IF c = Null THEN << <<"null">> >> ELSE Doc(c)

\* deep structural equality: same keys with the same values, in any order
DeepEqual(a, b) ==
  /\ (a = Null) = (b = Null)
  /\ {Doc(a)[i] : i \in 1..Len(Doc(a))} = {Doc(b)[i] : i \in 1..Len(Doc(b))}

VARIABLES
  db,             \* Resume Store: id -> record, NoData when there is none
  nextId,         \* next id the Resume Store assigns
  clock,          \* server time, source of updated_at
  defaultSetting, \* Setting Store record "default_resume"
  resumesQuery,   \* query ['resumes']
  settingQuery,   \* query ['setting', 'default_resume']
  resumeQuery,    \* queries ['resume', id]
  selectedResume, pageData, showNameModal, renameTarget, hasInitialized,
  url,            \* query parameter selectedResume of window.location
  localStorage,   \* resumeAssistant_<id> entries: id -> transcript or absent
  mutation,       \* the handler that is suspended at an await, if any
  chatCalls,      \* chat requests in flight
  messages,       \* ChatInterface state: the transcript the chat shows
  currentResume,  \* ChatInterface state: the resume sent along with a message
  sends,          \* chat messages sent so far
  loads,          \* page loads so far
  faults,         \* requests rejected so far
  alerted,        \* text of the last window.alert, "" when there was none
  error,          \* ResumeNameModal state: the validation message, "" if none
  storageFails,   \* the browser's localStorage throws on every access
  settings,       \* Setting Store: the records other than default_resume
  saveCall,       \* the saveSetting call of ResumePreview, NoCall if none
  savedAsNew      \* history: outcome of the last completed SaveAsNew

vars == <<db, nextId, clock, defaultSetting, resumesQuery, settingQuery,
          resumeQuery, selectedResume, pageData, showNameModal, renameTarget,
          hasInitialized, url, localStorage, mutation, chatCalls, messages,
          currentResume, sends, loads, faults, alerted, error,
          storageFails, settings, saveCall, savedAsNew>>

server == <<db, nextId, clock, defaultSetting>>
budget == <<sends, loads, faults, alerted, error>>
NoSaved == [state |-> "none", id |-> Undef, resume_json |-> Null]
NoCall == [pc |-> "idle", name |-> "", value |-> <<>>, existing |-> 0]
Absent == <<"absent">>   \* localStorage.getItem(...) === null
Corrupt == <<"corrupt">> \* an entry that JSON.parse rejects

\* ---------------------------------------------------------------- helpers
Exists(d, i) == i \in Ids /\ d[i] # NoData
IsEmptyList(d) == \A i \in Ids : d[i] = NoData

\* data of useResume(sel): the cached record of that key, undefined when the
\* query is disabled (!!id false) or nothing was fetched for the key
SelectedResumeData(sel, rq) ==
  IF sel \in Ids THEN rq[sel].data ELSE NoData

\* useResume(sel).isLoading
selectedResumeLoading ==
  selectedResume \in Ids /\ resumeQuery[selectedResume].fetching
                         /\ resumeQuery[selectedResume].data = NoData

\* isLoading of a query: fetching while its status is still 'pending'
isInitialLoading ==
  \/ resumesQuery.fetching /\ resumesQuery.pending
  \/ settingQuery.fetching /\ settingQuery.pending

\* getItem and JSON.parse inside try: [] when either throws
loadChatFromLocalStorage(ls, resumeId) ==
  IF ~storageFails /\ resumeId \in DOMAIN ls
       /\ ls[resumeId] # Absent /\ ls[resumeId] # Corrupt
  THEN ls[resumeId]
  ELSE <<>>

\* setItem inside try: a throw is logged and nothing is written
saveChatToLocalStorage(ls, resumeId, msgs) ==
  IF ~storageFails /\ resumeId \in DOMAIN ls
  THEN [ls EXCEPT ![resumeId] = msgs] ELSE ls

\* removeItem inside try: a throw is logged and the entry stays
deleteChatFromLocalStorage(ls, resumeId) ==
  IF ~storageFails /\ resumeId \in DOMAIN ls
  THEN [ls EXCEPT ![resumeId] = Absent] ELSE ls

\* defaultResumeSetting?.value ? parseInt(value, 10) : undefined
DefaultResumeId(sq) ==
  IF sq.state = "set" /\ sq.value # <<>> THEN ParseInt(sq.value) ELSE Undef

\* the "load resume data" effect, deps [selectedResume, selectedResumeData]:
\* pd is pageData after the handler's own setState calls
LoadEffect(sel, rq, ls, pd) ==
  LET data == SelectedResumeData(sel, rq)
      prev == SelectedResumeData(selectedResume, resumeQuery)
  IN IF (sel # selectedResume \/ data # prev) /\ Truthy(sel) /\ data # NoData
     THEN [chatMessages |-> loadChatFromLocalStorage(ls, sel),
           resume |-> data.resume_json]
     ELSE pd

\* isEdited without its first case (new resume with content)
isEdited_NoDraftCase ==
  LET selectedResumeData == SelectedResumeData(selectedResume, resumeQuery)
  IN IF selectedResume # Undef /\ selectedResumeData # NoData
        /\ pageData.resume # Null
     THEN Stringify(pageData.resume)
            # Stringify(selectedResumeData.resume_json)
     ELSE FALSE

\* the dirty flag, useMemo over [selectedResume, pageData.resume,
\* selectedResumeData]
isEdited ==
  LET selectedResumeData == SelectedResumeData(selectedResume, resumeQuery)
  IN IF selectedResume = Undef /\ pageData.resume # Null THEN TRUE
     ELSE IF selectedResume # Undef /\ selectedResumeData # NoData
             /\ pageData.resume # Null
          THEN Stringify(pageData.resume)
                 # Stringify(selectedResumeData.resume_json)
          ELSE FALSE

\* key={selectedResume || 'new-resume'} of ChatInterface
ChatKey(sel) == IF Truthy(sel) THEN sel ELSE 0

\* a change of the key unmounts the ChatInterface that issued the call
Remount(calls, sel) ==
  IF ChatKey(sel) = ChatKey(selectedResume) THEN calls
  ELSE [i \in 1..Len(calls) |-> [calls[i] EXCEPT !.live = FALSE]]

\* history: the selection context of the outstanding calls was left
LeaveContext(calls) ==
  [i \in 1..Len(calls) |-> [calls[i] EXCEPT !.stale = TRUE]]

\* ChatInterface keeps the transcript in its own state (useState([])); the
\* messages and onMessagesChange props the page passes are not among the
\* props it takes.  A remount starts an empty transcript.
ChatMessagesAfter(sel, msgs) ==
  IF ChatKey(sel) = ChatKey(selectedResume) THEN msgs ELSE <<>>

\* useState(initialResume || null) at a mount; afterwards the effect on
\* [initialResume] copies a changed, non-null pageData.resume
CurrentResumeAfter(sel, pd, cr) ==
  IF ChatKey(sel) # ChatKey(selectedResume) THEN pd.resume
  ELSE IF pd.resume # Null /\ pd.resume # pageData.resume THEN pd.resume
  ELSE cr

\* the ChatInterface after a step of the page that set the selection and
\* pageData
ChatInterfaceAfter ==
  /\ messages' = ChatMessagesAfter(selectedResume', messages)
  /\ currentResume' = CurrentResumeAfter(selectedResume', pageData',
                                         currentResume)

UserMessage(resume) ==
  [role |-> "user", content |-> "m", resume |-> resume]

AssistantMessage(content, resume) ==
  [role |-> "assistant", content |-> content, resume |-> resume]

\* invalidateQueries: an observed query refetches at once
InvalidateResumes(q) == [q EXCEPT !.fetching = TRUE]
InvalidateSetting(q) == [q EXCEPT !.fetching = TRUE]
\* a query that is not observed is only marked; it refetches when it is
\* observed again
InvalidateResume(rq, id, sel) ==
  IF id \notin Ids THEN rq
  ELSE IF id = sel THEN [rq EXCEPT ![id].fetching = TRUE,
                                   ![id].invalid = TRUE]
  ELSE IF rq[id].data # NoData THEN [rq EXCEPT ![id].invalid = TRUE]
  ELSE rq

\* ------------------------------------------------------------------- Init
Init ==
  /\ db = [i \in Ids |-> NoData]
  /\ nextId = 1
  /\ clock = 0
  /\ defaultSetting = NoSetting
  /\ resumesQuery = [has |-> FALSE, list |-> [i \in Ids |-> NoData],
                     fetching |-> TRUE, pending |-> TRUE]
  /\ settingQuery = [state |-> "undefined", value |-> <<>>,
                     fetching |-> TRUE, pending |-> TRUE]
  /\ resumeQuery = [i \in Ids |-> [data |-> NoData, fetching |-> FALSE,
                                    invalid |-> FALSE]]
  /\ selectedResume = Undef
  /\ pageData = [chatMessages |-> <<>>, resume |-> Null]
  /\ showNameModal = FALSE
  /\ renameTarget = Undef
  /\ hasInitialized = FALSE
  /\ url = NoParam
  /\ localStorage = [i \in Ids |-> Absent]
  /\ mutation = Idle
  /\ chatCalls = <<>>
  /\ messages = <<>>
  /\ currentResume = Null
  /\ sends = 0
  /\ loads = 0
  /\ faults = 0
  /\ alerted = ""
  /\ error = ""
  /\ storageFails = FALSE
  /\ settings = <<>>
  /\ saveCall = NoCall
  /\ savedAsNew = NoSaved

\* ------------------------------------------------------------- Initialize
\* setSelectedResume(id) under useResume: the query of the new key is
\* observed; it is fetched when it has no data or was invalidated, or when
\* its data is older than the staleTime of the QueryClient (old)
Observe(rq, sel, old) ==
  IF sel \in Ids /\ sel # selectedResume
       /\ (rq[sel].data = NoData \/ rq[sel].invalid \/ old)
  THEN [rq EXCEPT ![sel].fetching = TRUE] ELSE rq

\* Initialize with the default resume taken before the URL parameter
Initialize_DefaultFirst(rsq, stq) ==
  LET loading == \/ rsq.fetching /\ rsq.pending
                 \/ stq.fetching /\ stq.pending
      resumeId == ParseInt(url.text)
      defaultResumeId == DefaultResumeId(stq)
      sel == IF Truthy(defaultResumeId) THEN defaultResumeId
             ELSE IF url.present /\ url.text # <<>> /\ resumeId # NaN
             THEN resumeId
             ELSE selectedResume
  IN IF ~hasInitialized /\ ~loading
     THEN /\ selectedResume' = sel
          /\ hasInitialized' = TRUE
          /\ resumeQuery' = Observe(resumeQuery, sel, TRUE)
          /\ pageData' = LoadEffect(sel, resumeQuery', localStorage, pageData)
          /\ chatCalls' = Remount(chatCalls, sel)
          /\ ChatInterfaceAfter
          /\ UNCHANGED <<storageFails, settings, saveCall>>
     ELSE UNCHANGED <<selectedResume, hasInitialized, storageFails, settings,
                      saveCall, resumeQuery, pageData, chatCalls, messages,
                      currentResume>>

\* Initialize without the hasInitialized guard: it runs whenever its
\* dependencies change
Initialize_Rerun(rsq, stq) ==
  LET loading == \/ rsq.fetching /\ rsq.pending
                 \/ stq.fetching /\ stq.pending
      resumeId == ParseInt(url.text)
      defaultResumeId == DefaultResumeId(stq)
      sel == IF url.present /\ url.text # <<>> /\ resumeId # NaN
             THEN resumeId
             ELSE IF Truthy(defaultResumeId) THEN defaultResumeId
             ELSE selectedResume
  IN IF ~loading
     THEN /\ selectedResume' = sel
          /\ hasInitialized' = TRUE
          /\ resumeQuery' = Observe(resumeQuery, sel, TRUE)
          /\ pageData' = LoadEffect(sel, resumeQuery', localStorage, pageData)
          /\ chatCalls' = Remount(chatCalls, sel)
          /\ ChatInterfaceAfter
          /\ UNCHANGED <<storageFails, settings, saveCall>>
     ELSE UNCHANGED <<selectedResume, hasInitialized, storageFails, settings,
                      saveCall, resumeQuery, pageData, chatCalls, messages,
                      currentResume>>

\* the "Initialize" effect, deps [hasInitialized, isInitialLoading,
\* defaultResumeSetting]; rsq and stq are the two queries after the step
\* that changed them
Initialize(rsq, stq) ==
  LET loading == \/ rsq.fetching /\ rsq.pending
                 \/ stq.fetching /\ stq.pending
      resumeId == ParseInt(url.text)
      defaultResumeId == DefaultResumeId(stq)
      sel == IF url.present /\ url.text # <<>> /\ resumeId # NaN
             THEN resumeId
             ELSE IF Truthy(defaultResumeId) THEN defaultResumeId
             ELSE selectedResume
  IN IF ~hasInitialized /\ ~loading
     THEN /\ selectedResume' = sel
          /\ hasInitialized' = TRUE
          /\ resumeQuery' = Observe(resumeQuery, sel, TRUE)
          /\ pageData' = LoadEffect(sel, resumeQuery', localStorage, pageData)
          /\ chatCalls' = Remount(chatCalls, sel)
          /\ ChatInterfaceAfter
          /\ UNCHANGED <<storageFails, settings, saveCall>>
     ELSE UNCHANGED <<selectedResume, hasInitialized, storageFails, settings,
                      saveCall, resumeQuery, pageData, chatCalls, messages,
                      currentResume>>

\* ---------------------------------------------------------------- queries
fetchResumesFulfilled ==
  /\ resumesQuery.fetching
  /\ resumesQuery' = [has |-> TRUE, list |-> db, fetching |-> FALSE,
                      pending |-> FALSE]
  /\ Initialize(resumesQuery', settingQuery)
  /\ UNCHANGED <<budget, server, settingQuery, showNameModal, renameTarget,
                 url, localStorage, mutation, savedAsNew>>

fetchResumesRejected ==
  /\ resumesQuery.fetching
  /\ faults < MaxFaults
  /\ faults' = faults + 1
  /\ resumesQuery' = [resumesQuery EXCEPT !.fetching = FALSE,
                                          !.pending = FALSE]
  /\ Initialize(resumesQuery', settingQuery)
  /\ UNCHANGED <<sends, loads, error, alerted, server, settingQuery,
                 showNameModal, renameTarget, url, localStorage, mutation,
                 savedAsNew>>

getSettingFulfilled ==
  /\ settingQuery.fetching
  /\ settingQuery' =
       IF defaultSetting.present
       THEN [state |-> "set", value |-> defaultSetting.value,
             fetching |-> FALSE, pending |-> FALSE]
       ELSE [state |-> "null", value |-> <<>>, fetching |-> FALSE,
             pending |-> FALSE]
  /\ Initialize(resumesQuery, settingQuery')
  /\ UNCHANGED <<budget, server, resumesQuery, showNameModal, renameTarget,
                 url, localStorage, mutation, savedAsNew>>

getSettingRejected ==
  /\ settingQuery.fetching
  /\ faults < MaxFaults
  /\ faults' = faults + 1
  /\ settingQuery' = [settingQuery EXCEPT !.fetching = FALSE,
                                          !.pending = FALSE]
  /\ Initialize(resumesQuery, settingQuery')
  /\ UNCHANGED <<sends, loads, error, alerted, server, resumesQuery,
                 showNameModal, renameTarget, url, localStorage, mutation,
                 savedAsNew>>

fetchResumeByIdFulfilled(id) ==
  /\ resumeQuery[id].fetching
  /\ Exists(db, id)
  /\ resumeQuery' = [resumeQuery EXCEPT ![id] =
                       [data |-> db[id], fetching |-> FALSE,
                        invalid |-> FALSE]]
  /\ pageData' = LoadEffect(selectedResume, resumeQuery', localStorage,
                            pageData)
  /\ UNCHANGED <<budget, server, resumesQuery, settingQuery, selectedResume,
                 showNameModal, renameTarget, hasInitialized, storageFails,
                 settings, saveCall, url, localStorage, mutation, chatCalls,
                 savedAsNew>>
  /\ ChatInterfaceAfter

\* 404 for a resume that does not exist, or a failed request
fetchResumeByIdRejected(id) ==
  /\ resumeQuery[id].fetching
  /\ faults < MaxFaults
  /\ faults' = faults + 1
  /\ resumeQuery' = [resumeQuery EXCEPT ![id].fetching = FALSE]
  /\ UNCHANGED <<sends, loads, error, alerted, server, resumesQuery,
                 settingQuery, selectedResume, pageData, showNameModal,
                 renameTarget, hasInitialized, storageFails, settings,
                 saveCall, url, localStorage, mutation, chatCalls, messages,
                 currentResume, savedAsNew>>

\* -------------------------------------------------- synchronous handlers
\* the resumes the ResumeList shows
Listed(r) == resumesQuery.has /\ Exists(resumesQuery.list, r)

\* the page is rendered and no modal sheet covers it
\* the effect of ResumeNameModal on [open, initialName]: an opening modal
\* starts without a validation message
ModalErrorAfter(open, err) == IF open /\ ~showNameModal THEN "" ELSE err

Interactive == hasInitialized /\ ~showNameModal

\* window.history.pushState with searchParams.set / searchParams.delete
UrlSet(id) == [present |-> TRUE, text |-> ToString(id)]

handleResumeUpdate(pd, resume) == [pd EXCEPT !.resume = resume]

\* setPageData(prev => ({ ...prev, chatMessages: messages }))
handleMessagesChange(pd, msgs) == [pd EXCEPT !.chatMessages = msgs]

\* saves the transcript under the selected resume, if there is one
handleAiResponseReceived(ls, sel, pd) ==
  IF Truthy(sel) THEN saveChatToLocalStorage(ls, sel, pd.chatMessages) ELSE ls

handleSelectResume(r) ==
  /\ Interactive /\ Listed(r)
  /\ selectedResume' = r
  /\ url' = UrlSet(r)
  /\ \E old \in BOOLEAN : resumeQuery' = Observe(resumeQuery, r, old)
  /\ pageData' = LoadEffect(r, resumeQuery', localStorage, pageData)
  /\ chatCalls' = IF r = selectedResume THEN chatCalls
                  ELSE LeaveContext(Remount(chatCalls, r))
  /\ ChatInterfaceAfter
  /\ savedAsNew' = NoSaved
  /\ UNCHANGED <<budget, server, resumesQuery, settingQuery, showNameModal,
                 renameTarget, hasInitialized, storageFails, settings,
                 saveCall, localStorage, mutation>>

\* a Tailor Resume that keeps the resume selected and edits it in place
handleTailorResume_Selects(r) ==
  /\ Interactive /\ Listed(r)
  /\ selectedResume' = r
  /\ pageData' = [chatMessages |-> <<>>,
                  resume |-> resumesQuery.list[r].resume_json]
  /\ url' = UrlSet(r)
  /\ chatCalls' = LeaveContext(Remount(chatCalls, r))
  /\ ChatInterfaceAfter
  /\ savedAsNew' = NoSaved
  /\ UNCHANGED <<budget, server, resumesQuery, settingQuery, resumeQuery,
                 showNameModal, renameTarget, hasInitialized, storageFails,
                 settings, saveCall, localStorage, mutation>>

handleTailorResume(r) ==
  /\ Interactive /\ Listed(r)
  /\ selectedResume' = Undef
  /\ pageData' = [chatMessages |-> <<>>,
                  resume |-> resumesQuery.list[r].resume_json]
  /\ url' = NoParam
  /\ chatCalls' = LeaveContext(Remount(chatCalls, Undef))
  /\ ChatInterfaceAfter
  /\ savedAsNew' = NoSaved
  /\ UNCHANGED <<budget, server, resumesQuery, settingQuery, resumeQuery,
                 showNameModal, renameTarget, hasInitialized, storageFails,
                 settings, saveCall, localStorage, mutation>>

handleNewResume ==
  /\ Interactive
  /\ selectedResume' = Undef
  /\ pageData' = [chatMessages |-> <<>>, resume |-> Null]
  /\ url' = NoParam
  /\ chatCalls' = LeaveContext(Remount(chatCalls, Undef))
  /\ ChatInterfaceAfter
  /\ savedAsNew' = NoSaved
  /\ UNCHANGED <<budget, server, resumesQuery, settingQuery, resumeQuery,
                 showNameModal, renameTarget, hasInitialized, storageFails,
                 settings, saveCall, localStorage, mutation>>

handleOpenRenameModal(r) ==
  /\ Interactive /\ Listed(r)
  /\ renameTarget' = r
  /\ showNameModal' = TRUE
  /\ error' = ModalErrorAfter(showNameModal', error)
  /\ UNCHANGED <<sends, loads, faults, alerted, server, resumesQuery,
                 settingQuery, resumeQuery, selectedResume, pageData,
                 hasInitialized, storageFails, settings, saveCall, url,
                 localStorage, mutation, chatCalls, messages, currentResume,
                 savedAsNew>>

\* ResumeNameModal.handleCancel: onOpenChange(false)
handleCancel ==
  /\ hasInitialized /\ showNameModal
  /\ showNameModal' = FALSE
  /\ error' = ""
  /\ UNCHANGED <<sends, loads, faults, alerted, server, resumesQuery,
                 settingQuery, resumeQuery, selectedResume, pageData,
                 renameTarget, hasInitialized, storageFails, settings,
                 saveCall, url, localStorage, mutation, chatCalls, messages,
                 currentResume, savedAsNew>>

\* ------------------------------------------------------------ Resume Store
\* POST /api/resumes: a fresh id, updated_at stamped by the server
ServerCreate(d, id, name, resume_json, now) ==
  [d EXCEPT ![id] = [name |-> name, resume_json |-> resume_json,
                     updated_at |-> now]]

\* PUT /api/resumes/{id} with the subset {resume_json}
ServerUpdateContent(d, id, resume_json, now) ==
  [d EXCEPT ![id].resume_json = resume_json, ![id].updated_at = now]

\* PUT /api/resumes/{id} with the subset {name}
ServerUpdateName(d, id, name, now) ==
  [d EXCEPT ![id].name = name, ![id].updated_at = now]

\* DELETE /api/resumes/{id}
ServerDelete(d, id) == [d EXCEPT ![id] = NoData]

\* PUT /api/resumes/{id}/set-default: the Setting record default_resume
ServerSetDefault(id) == [present |-> TRUE, value |-> ToString(id)]

\* ------------------------------------------------------- handleSaveClick
handleSaveClick ==
  /\ Interactive
  /\ pageData.resume # Null
  /\ IF Truthy(selectedResume)
     THEN /\ mutation = Idle
          /\ mutation' = [Idle EXCEPT !.kind = "update",
                                      !.id = selectedResume,
                                      !.resume_json = pageData.resume,
                                      !.chat = pageData.chatMessages]
          /\ savedAsNew' = NoSaved
          /\ UNCHANGED showNameModal
     ELSE /\ showNameModal' = TRUE
          /\ UNCHANGED <<mutation, savedAsNew>>
  /\ error' = ModalErrorAfter(showNameModal', error)
  /\ UNCHANGED <<sends, loads, faults, alerted, server, resumesQuery,
                 settingQuery, resumeQuery, selectedResume, pageData,
                 renameTarget, hasInitialized, storageFails, settings,
                 saveCall, url, localStorage, chatCalls, messages,
                 currentResume>>

\* handleSaveClick with a saveChatToLocalStorage that lets the exception of
\* setItem escape: the catch of the handler reports a failed save
updateResumeFulfilled_Uncaught ==
  /\ mutation.kind = "update"
  /\ Exists(db, mutation.id) /\ clock < MaxClock
  /\ clock' = clock + 1
  /\ db' = ServerUpdateContent(db, mutation.id, mutation.resume_json, clock')
  /\ resumesQuery' = InvalidateResumes(resumesQuery)
  /\ resumeQuery' = InvalidateResume(resumeQuery, mutation.id, selectedResume)
  /\ localStorage' = saveChatToLocalStorage(localStorage, mutation.id,
                                            mutation.chat)
  /\ alerted' = IF storageFails
                THEN "Failed to save resume. Please try again."
                ELSE alerted
  /\ mutation' = Idle
  /\ UNCHANGED <<sends, loads, faults, error, nextId, defaultSetting,
                 settingQuery, selectedResume, pageData, showNameModal,
                 renameTarget, hasInitialized, storageFails, settings,
                 saveCall, url, chatCalls, messages, currentResume,
                 savedAsNew>>

updateResumeFulfilled ==
  /\ mutation.kind = "update"
  /\ Exists(db, mutation.id) /\ clock < MaxClock
  /\ clock' = clock + 1
  /\ db' = ServerUpdateContent(db, mutation.id, mutation.resume_json, clock')
  /\ resumesQuery' = InvalidateResumes(resumesQuery)
  /\ resumeQuery' = InvalidateResume(resumeQuery, mutation.id, selectedResume)
  /\ localStorage' = saveChatToLocalStorage(localStorage, mutation.id,
                                            mutation.chat)
  /\ mutation' = Idle
  /\ UNCHANGED <<budget, nextId, defaultSetting, settingQuery, selectedResume,
                 pageData, showNameModal, renameTarget, hasInitialized,
                 storageFails, settings, saveCall, url, chatCalls, messages,
                 currentResume, savedAsNew>>

\* the catch of handleSaveClick with the transcript stored as after a
\* successful update
updateResumeRejected_SavesChat ==
  /\ faults < MaxFaults
  /\ faults' = faults + 1
  /\ mutation.kind = "update"
  /\ mutation' = Idle
  /\ localStorage' = saveChatToLocalStorage(localStorage, mutation.id,
                                            mutation.chat)
  /\ alerted' = "Failed to save resume. Please try again."
  /\ UNCHANGED <<sends, loads, error, server, resumesQuery, settingQuery,
                 resumeQuery, selectedResume, pageData, showNameModal,
                 renameTarget, hasInitialized, storageFails, settings,
                 saveCall, url, chatCalls, messages, currentResume,
                 savedAsNew>>

\* the catch of handleSaveClick: alert
updateResumeRejected ==
  /\ faults < MaxFaults
  /\ faults' = faults + 1
  /\ mutation.kind = "update"
  /\ mutation' = Idle
  /\ alerted' = "Failed to save resume. Please try again."
  /\ UNCHANGED <<sends, loads, error, server, resumesQuery, settingQuery,
                 resumeQuery, selectedResume, pageData, showNameModal,
                 renameTarget, hasInitialized, storageFails, settings,
                 saveCall, url, localStorage, chatCalls, messages,
                 currentResume, savedAsNew>>

\* ---------------------------------- ResumeNameModal.handleSave, onSave(name)
\* handleSaveWithName up to its first await; the modal then closes itself
handleSaveWithName(name) ==
  /\ hasInitialized /\ showNameModal /\ mutation = Idle
  /\ mutation' =
       IF renameTarget # Undef
       THEN [Idle EXCEPT !.kind = "rename", !.id = renameTarget,
                         !.name = name]
       ELSE [Idle EXCEPT !.kind = "create", !.name = name,
                         !.resume_json = IF pageData.resume = Null
                                         THEN EmptyObj ELSE pageData.resume,
                         !.chat = pageData.chatMessages,
                         !.flag = (~resumesQuery.has
                                     \/ IsEmptyList(resumesQuery.list))]
  /\ showNameModal' = FALSE
  /\ UNCHANGED <<sends, loads, faults, alerted, server, resumesQuery,
                 settingQuery, resumeQuery, selectedResume, pageData,
                 renameTarget, hasInitialized, storageFails, settings,
                 saveCall, url, localStorage, chatCalls, messages,
                 currentResume, savedAsNew>>

\* String.prototype.trim on the typed text, a sequence of characters
RECURSIVE TrimStart(_)
TrimStart(chars) ==
  IF chars # <<>> /\ IsSpace(Head(chars)) THEN TrimStart(Tail(chars))
  ELSE chars

RECURSIVE TrimEnd(_)
TrimEnd(chars) ==
  IF chars # <<>> /\ IsSpace(chars[Len(chars)])
  THEN TrimEnd(SubSeq(chars, 1, Len(chars) - 1))
  ELSE chars

Trim(chars) == TrimEnd(TrimStart(chars))

\* the characters as one string
RECURSIVE Text(_)
Text(chars) == IF chars = <<>> THEN "" ELSE Head(chars) \o Text(Tail(chars))

\* handleSave that validates and passes on the typed text untrimmed
handleSave_NoTrim(input) ==
  /\ hasInitialized /\ showNameModal
  /\ IF Len(input) = 0
     THEN /\ error' = "Resume name is required"
          /\ UNCHANGED <<sends, loads, faults, alerted, server, resumesQuery,
                         settingQuery, resumeQuery, selectedResume, pageData,
                         showNameModal, renameTarget, hasInitialized,
                         storageFails, settings, saveCall, url, localStorage,
                         mutation, chatCalls, messages, currentResume,
                         savedAsNew>>
     ELSE /\ handleSaveWithName(Text(input))
          /\ error' = ""

\* ResumeNameModal.handleSave with the typed text: validate, then onSave
\* (handleSaveWithName of the page), close and reset
handleSave(input) ==
  /\ hasInitialized /\ showNameModal
  /\ LET trimmedName == Trim(input)
     IN IF Len(trimmedName) = 0
        THEN /\ error' = "Resume name is required"
             /\ UNCHANGED <<sends, loads, faults, alerted, server,
                            resumesQuery, settingQuery, resumeQuery,
                            selectedResume, pageData, showNameModal,
                            renameTarget, hasInitialized, storageFails,
                            settings, saveCall, url, localStorage, mutation,
                            chatCalls, messages, currentResume, savedAsNew>>
        ELSE /\ handleSaveWithName(Text(trimmedName))
             /\ error' = ""

renameFulfilled ==
  /\ mutation.kind = "rename"
  /\ Exists(db, mutation.id) /\ clock < MaxClock
  /\ clock' = clock + 1
  /\ db' = ServerUpdateName(db, mutation.id, mutation.name, clock')
  /\ resumesQuery' = InvalidateResumes(resumesQuery)
  /\ resumeQuery' = InvalidateResume(resumeQuery, mutation.id, selectedResume)
  /\ renameTarget' = Undef
  /\ showNameModal' = FALSE
  /\ mutation' = Idle
  /\ UNCHANGED <<budget, nextId, defaultSetting, settingQuery, selectedResume,
                 pageData, hasInitialized, storageFails, settings, saveCall,
                 url, localStorage, chatCalls, messages, currentResume,
                 savedAsNew>>

renameRejected ==
  /\ faults < MaxFaults
  /\ faults' = faults + 1
  /\ mutation.kind = "rename"
  /\ showNameModal' = FALSE
  /\ mutation' = Idle
  /\ alerted' = "Failed to rename resume. Please try again."
  /\ UNCHANGED <<sends, loads, error, server, resumesQuery, settingQuery,
                 resumeQuery, selectedResume, pageData, renameTarget,
                 hasInitialized, storageFails, settings, saveCall, url,
                 localStorage, chatCalls, messages, currentResume,
                 savedAsNew>>

\* the create branch after its awaits: lines 330-341 and 348
FinishCreate(newId, m) ==
  /\ localStorage' = saveChatToLocalStorage(localStorage, newId, m.chat)
  /\ selectedResume' = newId
  /\ url' = UrlSet(newId)
  /\ resumeQuery' = Observe(resumeQuery, newId, TRUE)
  /\ pageData' = LoadEffect(newId, resumeQuery', localStorage', pageData)
  /\ chatCalls' = Remount(chatCalls, newId)
  /\ ChatInterfaceAfter
  /\ showNameModal' = FALSE
  /\ mutation' = Idle
  /\ savedAsNew' = [state |-> "saved", id |-> newId,
                    resume_json |-> m.resume_json]

\* the catch of the create branch, with the draft cleared as after a save
FailCreate_ResetDraft ==
  /\ alerted' = "Failed to create resume. Please try again."
  /\ showNameModal' = FALSE
  /\ mutation' = Idle
  /\ pageData' = [chatMessages |-> <<>>, resume |-> Null]
  /\ savedAsNew' = [state |-> "failed", id |-> Undef,
                    resume_json |-> mutation.resume_json]
  /\ UNCHANGED <<selectedResume, url, localStorage, resumeQuery, chatCalls,
                 messages, currentResume>>

\* the catch of the create branch: alert, then line 348
FailCreate ==
  /\ alerted' = "Failed to create resume. Please try again."
  /\ showNameModal' = FALSE
  /\ mutation' = Idle
  /\ savedAsNew' = [state |-> "failed", id |-> Undef,
                    resume_json |-> mutation.resume_json]
  /\ UNCHANGED <<selectedResume, pageData, url, localStorage, resumeQuery,
                 chatCalls, messages, currentResume>>

createResumeFulfilled ==
  /\ mutation.kind = "create"
  /\ nextId <= MaxId /\ clock < MaxClock
  /\ clock' = clock + 1
  /\ nextId' = nextId + 1
  /\ db' = ServerCreate(db, nextId, mutation.name, mutation.resume_json,
                        clock')
  /\ resumesQuery' = InvalidateResumes(resumesQuery)
  /\ IF mutation.flag
     THEN /\ mutation' = [mutation EXCEPT !.kind = "firstDefault",
                                          !.id = nextId]
          /\ UNCHANGED <<selectedResume, pageData, url, localStorage,
                         resumeQuery, chatCalls, messages, currentResume,
                         showNameModal, savedAsNew>>
     ELSE FinishCreate(nextId, mutation)
  /\ UNCHANGED <<budget, defaultSetting, settingQuery, renameTarget,
                 hasInitialized, storageFails, settings, saveCall>>

createResumeRejected ==
  /\ faults < MaxFaults
  /\ faults' = faults + 1
  /\ mutation.kind = "create"
  /\ FailCreate
  /\ UNCHANGED <<sends, loads, error, server, resumesQuery, settingQuery,
                 renameTarget, hasInitialized, storageFails, settings,
                 saveCall>>

\* await setDefaultMutation.mutateAsync(newResume.id) of the create branch
firstDefaultFulfilled ==
  /\ mutation.kind = "firstDefault"
  /\ Exists(db, mutation.id)
  /\ defaultSetting' = ServerSetDefault(mutation.id)
  /\ resumesQuery' = InvalidateResumes(resumesQuery)
  /\ settingQuery' = InvalidateSetting(settingQuery)
  /\ FinishCreate(mutation.id, mutation)
  /\ UNCHANGED <<budget, db, nextId, clock, renameTarget, hasInitialized,
                 storageFails, settings, saveCall>>

firstDefaultRejected ==
  /\ faults < MaxFaults
  /\ faults' = faults + 1
  /\ mutation.kind = "firstDefault"
  /\ FailCreate
  /\ UNCHANGED <<sends, loads, error, server, resumesQuery, settingQuery,
                 renameTarget, hasInitialized, storageFails, settings,
                 saveCall>>

\* ---------------------------------------------------- handleDeleteResume
\* window.confirm accepted; isDefaultResume is taken before the first await
handleDeleteResume(r) ==
  /\ Interactive /\ Listed(r) /\ mutation = Idle
  /\ mutation' = [Idle EXCEPT !.kind = "delete", !.id = r,
                              !.flag = (DefaultResumeId(settingQuery) = r)]
  /\ UNCHANGED <<budget, server, resumesQuery, settingQuery, resumeQuery,
                 selectedResume, pageData, showNameModal, renameTarget,
                 hasInitialized, storageFails, settings, saveCall, url,
                 localStorage, chatCalls, messages, currentResume,
                 savedAsNew>>

\* the try block after its awaits: lines 381-396
FinishDelete(id) ==
  /\ localStorage' = deleteChatFromLocalStorage(localStorage, id)
  /\ selectedResume' = Undef
  /\ pageData' = [chatMessages |-> <<>>, resume |-> Null]
  /\ url' = NoParam
  /\ chatCalls' = LeaveContext(Remount(chatCalls, Undef))
  /\ ChatInterfaceAfter
  /\ mutation' = Idle
  /\ savedAsNew' = NoSaved

deleteResumeFulfilled ==
  /\ mutation.kind = "delete"
  /\ Exists(db, mutation.id)
  /\ db' = ServerDelete(db, mutation.id)
  /\ resumesQuery' = InvalidateResumes(resumesQuery)
  /\ IF mutation.flag
     THEN /\ mutation' = [mutation EXCEPT !.kind = "deleteSetting"]
          /\ UNCHANGED <<selectedResume, pageData, url, localStorage,
                         chatCalls, messages, currentResume, savedAsNew>>
     ELSE FinishDelete(mutation.id)
  /\ UNCHANGED <<budget, nextId, clock, defaultSetting, settingQuery,
                 resumeQuery, showNameModal, renameTarget, hasInitialized,
                 storageFails, settings, saveCall>>

\* the catch of handleDeleteResume with the cleanup of lines 381-394 moved
\* behind the try block, where it runs after a failed delete too
deleteResumeRejected_Cleans ==
  /\ faults < MaxFaults
  /\ faults' = faults + 1
  /\ mutation.kind = "delete"
  /\ alerted' = "Failed to delete resume. Please try again."
  /\ FinishDelete(mutation.id)
  /\ UNCHANGED <<sends, loads, error, server, resumesQuery, settingQuery,
                 resumeQuery, showNameModal, renameTarget, hasInitialized,
                 storageFails, settings, saveCall>>

\* the catch of handleDeleteResume: alert
deleteResumeRejected ==
  /\ faults < MaxFaults
  /\ faults' = faults + 1
  /\ mutation.kind = "delete"
  /\ mutation' = Idle
  /\ alerted' = "Failed to delete resume. Please try again."
  /\ UNCHANGED <<sends, loads, error, server, resumesQuery, settingQuery,
                 resumeQuery, selectedResume, pageData, showNameModal,
                 renameTarget, hasInitialized, storageFails, settings,
                 saveCall, url, localStorage, chatCalls, messages,
                 currentResume, savedAsNew>>

\* deleteSetting('default_resume'): getSetting, then DELETE by id
deleteSettingFulfilled ==
  /\ mutation.kind = "deleteSetting"
  /\ defaultSetting.present
  /\ defaultSetting' = NoSetting
  /\ settingQuery' = InvalidateSetting(settingQuery)
  /\ FinishDelete(mutation.id)
  /\ UNCHANGED <<budget, db, nextId, clock, resumesQuery, resumeQuery,
                 showNameModal, renameTarget, hasInitialized, storageFails,
                 settings, saveCall>>

\* 'Setting not found' or a failed request: the catch of handleDeleteResume
deleteSettingRejected ==
  /\ faults < MaxFaults
  /\ faults' = faults + 1
  /\ mutation.kind = "deleteSetting"
  /\ mutation' = Idle
  /\ alerted' = "Failed to delete resume. Please try again."
  /\ UNCHANGED <<sends, loads, error, server, resumesQuery, settingQuery,
                 resumeQuery, selectedResume, pageData, showNameModal,
                 renameTarget, hasInitialized, storageFails, settings,
                 saveCall, url, localStorage, chatCalls, messages,
                 currentResume, savedAsNew>>

\* ------------------------------------------- ResumeList.sortedResumes
\* the entries of the cached list in the order the server returned them
ResumeEntries(list, order) ==
  [k \in 1..Len(order) |-> [id |-> order[k],
                            updated_at |-> list[order[k]].updated_at]]

\* the orders in which GET /api/resumes can return the stored resumes
ResumeOrders(list) ==
  LET listed == {i \in Ids : Exists(list, i)}
  IN {o \in [1..Cardinality(listed) -> listed] :
        \A j, k \in DOMAIN o : j # k => o[j] # o[k]}

\* a comparator that sorts by updated_at ascending after the default
compareResumes_Ascending(a, b, defaultResumeId) ==
  IF a.id = defaultResumeId THEN -1
  ELSE IF b.id = defaultResumeId THEN 1
  ELSE a.updated_at - b.updated_at

\* the comparator of sortedResumes: default first, then updated_at DESC
compareResumes(a, b, defaultResumeId) ==
  IF a.id = defaultResumeId THEN -1
  ELSE IF b.id = defaultResumeId THEN 1
  ELSE b.updated_at - a.updated_at

\* Array.prototype.sort is stable: x goes behind the last element that
\* the comparator does not place after it
InsertSorted(s, x, defaultResumeId) ==
  LET keep == {j \in 1..Len(s) : compareResumes(s[j], x, defaultResumeId) <= 0}
      pos == IF keep = {} THEN 0
             ELSE CHOOSE j \in keep : \A k \in keep : k <= j
  IN SubSeq(s, 1, pos) \o <<x>> \o SubSeq(s, pos + 1, Len(s))

RECURSIVE SortPrefix(_, _, _)
SortPrefix(arr, n, defaultResumeId) ==
  IF n = 0 THEN <<>>
  ELSE InsertSorted(SortPrefix(arr, n - 1, defaultResumeId), arr[n],
                    defaultResumeId)

\* [...resumes].sort(comparator), [] while resumes is undefined
sortedResumes(rsq, order, defaultResumeId) ==
  IF ~rsq.has THEN <<>>
  ELSE LET arr == ResumeEntries(rsq.list, order)
       IN SortPrefix(arr, Len(arr), defaultResumeId)

\* ------------------------------------------ ResumeList.handleSetDefault
handleSetDefault(resumeId) ==
  /\ Interactive /\ Listed(resumeId) /\ mutation = Idle
  /\ mutation' = [Idle EXCEPT !.kind = "setDefault", !.id = resumeId]
  /\ UNCHANGED <<budget, server, resumesQuery, settingQuery, resumeQuery,
                 selectedResume, pageData, showNameModal, renameTarget,
                 hasInitialized, storageFails, settings, saveCall, url,
                 localStorage, chatCalls, messages, currentResume,
                 savedAsNew>>

\* set-default as a toggle: a resume that already is the default loses it
setDefaultResumeFulfilled_Toggle ==
  /\ mutation.kind = "setDefault"
  /\ Exists(db, mutation.id)
  /\ defaultSetting' = IF defaultSetting = ServerSetDefault(mutation.id)
                          THEN NoSetting
                          ELSE ServerSetDefault(mutation.id)
  /\ resumesQuery' = InvalidateResumes(resumesQuery)
  /\ settingQuery' = InvalidateSetting(settingQuery)
  /\ mutation' = Idle
  /\ UNCHANGED <<budget, db, nextId, clock, resumeQuery, selectedResume,
                 pageData, showNameModal, renameTarget, hasInitialized,
                 storageFails, settings, saveCall, url, localStorage,
                 chatCalls, messages, currentResume, savedAsNew>>

setDefaultResumeFulfilled ==
  /\ mutation.kind = "setDefault"
  /\ Exists(db, mutation.id)
  /\ defaultSetting' = ServerSetDefault(mutation.id)
  /\ resumesQuery' = InvalidateResumes(resumesQuery)
  /\ settingQuery' = InvalidateSetting(settingQuery)
  /\ mutation' = Idle
  /\ UNCHANGED <<budget, db, nextId, clock, resumeQuery, selectedResume,
                 pageData, showNameModal, renameTarget, hasInitialized,
                 storageFails, settings, saveCall, url, localStorage,
                 chatCalls, messages, currentResume, savedAsNew>>

setDefaultResumeRejected ==
  /\ faults < MaxFaults
  /\ faults' = faults + 1
  /\ mutation.kind = "setDefault"
  /\ mutation' = Idle
  /\ alerted' = "Failed to set default resume. Please try again."
  /\ UNCHANGED <<sends, loads, error, server, resumesQuery, settingQuery,
                 resumeQuery, selectedResume, pageData, showNameModal,
                 renameTarget, hasInitialized, storageFails, settings,
                 saveCall, url, localStorage, chatCalls, messages,
                 currentResume, savedAsNew>>

\* ------------------------------------------------------------------ chat
\* useChat(...).isLoading of the mounted ChatInterface
chatIsLoading == \E i \in 1..Len(chatCalls) : chatCalls[i].live

RemoveAt(seq, i) == SubSeq(seq, 1, i - 1) \o SubSeq(seq, i + 1, Len(seq))

\* ChatInterface.handleSendMessage: the user's message, with the resume the
\* chat holds, joins the transcript and sendMessage -> mutation.mutate
handleSendMessage ==
  /\ Interactive
  /\ ~chatIsLoading /\ sends < MaxSends
  /\ sends' = sends + 1
  /\ chatCalls' = Append(chatCalls, [live |-> TRUE, stale |-> FALSE])
  /\ messages' = Append(messages, UserMessage(currentResume))
  /\ UNCHANGED <<loads, faults, alerted, error, server, resumesQuery,
                 settingQuery, resumeQuery, selectedResume, pageData,
                 showNameModal, renameTarget, hasInitialized, storageFails,
                 settings, saveCall, url, localStorage, mutation,
                 currentResume, savedAsNew>>

\* the callbacks without the aiResponseReceived test of onSuccess: the
\* fallback message is added after the reply as well
ChatCallbacks_Both(msgs, response, message, resume_json) ==
  LET afterAiResponse ==
        IF response # ""
        THEN Append(msgs, AssistantMessage(response, resume_json))
        ELSE msgs
  IN IF message # ""
     THEN Append(afterAiResponse, AssistantMessage(message, resume_json))
     ELSE afterAiResponse

\* the callbacks ChatInterface gives useChat, in the order onSuccess of
\* useChat calls them: onResumeUpdate clears aiResponseReceived, onAiResponse
\* (only for a response text) appends it and sets the flag, onSuccess
\* appends the status message when the flag is not set
ChatCallbacks(msgs, response, message, resume_json) ==
  LET aiResponseReceived == response # ""
      afterAiResponse ==
        IF response # ""
        THEN Append(msgs, AssistantMessage(response, resume_json))
        ELSE msgs
  IN IF ~aiResponseReceived /\ message # ""
     THEN Append(afterAiResponse, AssistantMessage(message, resume_json))
     ELSE afterAiResponse

\* onSuccess of useChat for the response {resume_json, response?, message};
\* the setState calls of a ChatInterface that was unmounted have no effect,
\* the page's handleResumeUpdate always has
sendChatMessageFulfilled(i, resume_json, response) ==
  /\ i \in 1..Len(chatCalls)
  /\ pageData' = handleResumeUpdate(pageData, resume_json)
  /\ messages' = IF chatCalls[i].live
                 THEN ChatCallbacks(messages, response, StatusMessage,
                                    resume_json)
                 ELSE messages
  /\ currentResume' = IF chatCalls[i].live THEN resume_json
                      ELSE CurrentResumeAfter(selectedResume, pageData',
                                              currentResume)
  /\ chatCalls' = RemoveAt(chatCalls, i)
  /\ savedAsNew' = NoSaved
  /\ UNCHANGED <<budget, server, resumesQuery, settingQuery, resumeQuery,
                 selectedResume, showNameModal, renameTarget, hasInitialized,
                 storageFails, settings, saveCall, url, localStorage,
                 mutation>>

\* onError: setError
sendChatMessageRejected(i) ==
  /\ faults < MaxFaults
  /\ faults' = faults + 1
  /\ i \in 1..Len(chatCalls)
  /\ chatCalls' = RemoveAt(chatCalls, i)
  /\ UNCHANGED <<sends, loads, error, alerted, server, resumesQuery,
                 settingQuery, resumeQuery, selectedResume, pageData,
                 showNameModal, renameTarget, hasInitialized, storageFails,
                 settings, saveCall, url, localStorage, mutation, messages,
                 currentResume, savedAsNew>>

\* ------------------------------------------- ResumePreview: Save (setting)
\* saveMutation.isPending: the saveSetting call is at one of its awaits
isPending == saveCall.pc \in {"get", "put", "post"}

\* GET /api/settings/name/{name}: the id of the record of that name, 0 for
\* the 404 answer
FindByName(recs, name) ==
  IF \E k \in 1..Len(recs) : recs[k].name = name
  THEN CHOOSE k \in 1..Len(recs) :
         /\ recs[k].name = name
         /\ \A j \in 1..(k - 1) : recs[j].name # name
  ELSE 0

\* PUT /api/settings/{id} with {value}
ServerUpdateSetting(recs, id, value) == [recs EXCEPT ![id].value = value]

\* POST /api/settings with {name, value}: a new record
ServerCreateSetting(recs, name, value) ==
  Append(recs, [name |-> name, value |-> value])

\* handleSaveResume: saveMutation.mutateAsync({name: 'resume', value}); the
\* button is disabled without a resume and while the mutation is pending
handleSaveResume ==
  /\ Interactive /\ pageData.resume # Null /\ ~isPending
  /\ saveCall' = [pc |-> "get", name |-> "resume",
                  value |-> Stringify(pageData.resume), existing |-> 0]
  /\ UNCHANGED <<budget, server, resumesQuery, settingQuery, resumeQuery,
                 selectedResume, pageData, showNameModal, renameTarget,
                 hasInitialized, storageFails, settings, url, localStorage,
                 mutation, chatCalls, messages, currentResume, savedAsNew>>

\* what saveSetting leaves alone
SaveSettingFrame ==
  UNCHANGED <<sends, loads, error, alerted, server, resumesQuery,
              settingQuery, resumeQuery, selectedResume, pageData,
              showNameModal, renameTarget, hasInitialized, storageFails, url,
              localStorage, mutation, chatCalls, messages, currentResume,
              savedAsNew>>

\* saveSetting after the GET: with an ok answer it sends the PUT for
\* existing.id, with a 404 it leaves the try block and sends the POST
getByNameFulfilled ==
  /\ saveCall.pc = "get"
  /\ LET id == FindByName(settings, saveCall.name)
     IN saveCall' = IF id # 0
                    THEN [saveCall EXCEPT !.pc = "put", !.existing = id]
                    ELSE [saveCall EXCEPT !.pc = "post"]
  /\ UNCHANGED <<faults, settings>>
  /\ SaveSettingFrame

\* saveSetting after a GET that fetch rejects: the catch block swallows the
\* error and the POST is sent
getByNameRejected ==
  /\ saveCall.pc = "get"
  /\ faults < MaxFaults
  /\ faults' = faults + 1
  /\ saveCall' = [saveCall EXCEPT !.pc = "post"]
  /\ UNCHANGED settings
  /\ SaveSettingFrame

\* saveSetting after an ok PUT: the updated record is returned
updateSettingFulfilled ==
  /\ saveCall.pc = "put"
  /\ settings' = ServerUpdateSetting(settings, saveCall.existing,
                                     saveCall.value)
  /\ saveCall' = [saveCall EXCEPT !.pc = "done"]
  /\ UNCHANGED faults
  /\ SaveSettingFrame

\* saveSetting after a PUT that fails: 'Failed to update setting' is thrown
\* inside the try block, the catch block swallows it and the POST is sent
updateSettingRejected ==
  /\ saveCall.pc = "put"
  /\ faults < MaxFaults
  /\ faults' = faults + 1
  /\ saveCall' = [saveCall EXCEPT !.pc = "post"]
  /\ UNCHANGED settings
  /\ SaveSettingFrame

\* saveSetting after an ok POST: the new record is returned
createSettingFulfilled ==
  /\ saveCall.pc = "post"
  /\ settings' = ServerCreateSetting(settings, saveCall.name, saveCall.value)
  /\ saveCall' = [saveCall EXCEPT !.pc = "done"]
  /\ UNCHANGED faults
  /\ SaveSettingFrame

\* saveSetting after a POST that fails: the error is thrown to the caller,
\* handleSaveResume logs it
createSettingRejected ==
  /\ saveCall.pc = "post"
  /\ faults < MaxFaults
  /\ faults' = faults + 1
  /\ saveCall' = [saveCall EXCEPT !.pc = "failed"]
  /\ UNCHANGED settings
  /\ SaveSettingFrame

\* ------------------------------------------------------------- page load
\* the page is loaded again, at the current address or at one the user types
Reload(u) ==
  /\ hasInitialized /\ mutation = Idle /\ loads < MaxLoads
  /\ ~isPending
  /\ saveCall' = NoCall
  /\ loads' = loads + 1
  /\ url' = u
  /\ resumesQuery' = [has |-> FALSE, list |-> [i \in Ids |-> NoData],
                      fetching |-> TRUE, pending |-> TRUE]
  /\ settingQuery' = [state |-> "undefined", value |-> <<>>,
                      fetching |-> TRUE, pending |-> TRUE]
  /\ resumeQuery' = [i \in Ids |-> [data |-> NoData, fetching |-> FALSE,
                                    invalid |-> FALSE]]
  /\ selectedResume' = Undef
  /\ pageData' = [chatMessages |-> <<>>, resume |-> Null]
  /\ showNameModal' = FALSE
  /\ renameTarget' = Undef
  /\ hasInitialized' = FALSE
  /\ chatCalls' = <<>>
  /\ messages' = <<>>
  /\ currentResume' = Null
  /\ savedAsNew' = NoSaved
  /\ alerted' = ""
  /\ error' = ""
  /\ UNCHANGED <<sends, faults, server, localStorage, mutation, storageFails,
                 settings>>

UrlInputs ==
  {url, NoParam} \cup {[present |-> TRUE, text |-> t] : t \in UrlTexts}

\* ------------------------------------------------------------------ Next
\* one page load on an empty store: drafting, chat, saving and deleting
Next ==
  \/ fetchResumesFulfilled
  \/ fetchResumesRejected
  \/ getSettingFulfilled
  \/ getSettingRejected
  \/ \E id \in Ids : fetchResumeByIdFulfilled(id)
  \/ \E id \in Ids : fetchResumeByIdRejected(id)
  \/ \E r \in Ids : handleSelectResume(r)
  \/ \E r \in Ids : handleTailorResume(r)
  \/ handleNewResume
  \/ handleCancel
  \/ handleSaveClick
  \/ updateResumeFulfilled
  \/ updateResumeRejected
  \/ \E input \in TypedNames : handleSave(input)
  \/ createResumeFulfilled
  \/ createResumeRejected
  \/ firstDefaultFulfilled
  \/ firstDefaultRejected
  \/ \E r \in Ids : handleDeleteResume(r)
  \/ deleteResumeFulfilled
  \/ deleteResumeRejected
  \/ deleteSettingFulfilled
  \/ deleteSettingRejected
  \/ handleSendMessage
  \/ \E i \in 1..MaxSends, c \in Contents, t \in Responses :
       sendChatMessageFulfilled(i, c, t)
  \/ \E i \in 1..MaxSends : sendChatMessageRejected(i)

Spec == Init /\ [][Next]_vars

\* ------------------------------------------------------------ first save
\* the state Spec reaches by loading the page on an empty store and one
\* chat exchange: an unselected draft with content and a transcript; the
\* counters start again here
InitDraft ==
  /\ db = [i \in Ids |-> NoData]
  /\ nextId = 1
  /\ clock = 0
  /\ defaultSetting = NoSetting
  /\ resumesQuery = [has |-> TRUE, list |-> [i \in Ids |-> NoData],
                     fetching |-> FALSE, pending |-> FALSE]
  /\ settingQuery = [state |-> "null", value |-> <<>>,
                     fetching |-> FALSE, pending |-> FALSE]
  /\ resumeQuery = [i \in Ids |-> [data |-> NoData, fetching |-> FALSE,
                                    invalid |-> FALSE]]
  /\ selectedResume = Undef
  /\ pageData = [chatMessages |-> <<>>, resume |-> "c1"]
  /\ showNameModal = FALSE
  /\ renameTarget = Undef
  /\ hasInitialized = TRUE
  /\ url = NoParam
  /\ localStorage = [i \in Ids |-> Absent]
  /\ mutation = Idle
  /\ chatCalls = <<>>
  /\ messages = <<UserMessage(Null), AssistantMessage("r", "c1")>>
  /\ currentResume = "c1"
  /\ sends = 0
  /\ loads = 0
  /\ faults = 0
  /\ alerted = ""
  /\ error = ""
  /\ storageFails = FALSE
  /\ settings = <<>>
  /\ saveCall = NoCall
  /\ savedAsNew = NoSaved

\* saving the first resume while selecting and chatting
NextDraft ==
  \/ fetchResumesFulfilled
  \/ getSettingFulfilled
  \/ \E id \in Ids : fetchResumeByIdFulfilled(id)
  \/ \E id \in Ids : fetchResumeByIdRejected(id)
  \/ \E r \in Ids : handleSelectResume(r)
  \/ handleNewResume
  \/ handleCancel
  \/ handleSaveClick
  \/ updateResumeFulfilled
  \/ updateResumeRejected
  \/ \E input \in TypedNames : handleSave(input)
  \/ createResumeFulfilled
  \/ createResumeRejected
  \/ firstDefaultFulfilled
  \/ firstDefaultRejected
  \/ handleSendMessage
  \/ \E i \in 1..MaxSends, c \in Contents, t \in Responses :
       sendChatMessageFulfilled(i, c, t)
  \/ \E i \in 1..MaxSends : sendChatMessageRejected(i)

SpecDraft == InitDraft /\ [][NextDraft]_vars

\* ------------------------------------------------------------- page loads
\* the page is opened on a store that already holds resumes, at an address
\* the user chose, with or without a default resume
InitLoad ==
  /\ db = [i \in Ids |-> IF i < MaxId
                           THEN [name |-> StoredName,
                                 resume_json |-> IF i = 1 THEN "c1" ELSE "c2",
                                 updated_at |-> 0]
                           ELSE NoData]
  /\ nextId = MaxId
  /\ clock = 0
  /\ defaultSetting \in {NoSetting}
                          \cup {ServerSetDefault(i) : i \in 1..(MaxId - 1)}
  /\ resumesQuery = [has |-> FALSE, list |-> [i \in Ids |-> NoData],
                     fetching |-> TRUE, pending |-> TRUE]
  /\ settingQuery = [state |-> "undefined", value |-> <<>>,
                     fetching |-> TRUE, pending |-> TRUE]
  /\ resumeQuery = [i \in Ids |-> [data |-> NoData, fetching |-> FALSE,
                                    invalid |-> FALSE]]
  /\ selectedResume = Undef
  /\ pageData = [chatMessages |-> <<>>, resume |-> Null]
  /\ showNameModal = FALSE
  /\ renameTarget = Undef
  /\ hasInitialized = FALSE
  /\ url \in {NoParam} \cup {UrlSet(i) : i \in Ids}
               \cup {[present |-> TRUE, text |-> t] : t \in UrlTexts}
  /\ localStorage = [i \in Ids |-> Absent]
  /\ mutation = Idle
  /\ chatCalls = <<>>
  /\ messages = <<>>
  /\ currentResume = Null
  /\ sends = 0
  /\ loads = 0
  /\ faults = 0
  /\ alerted = ""
  /\ error = ""
  /\ storageFails = FALSE
  /\ settings = <<>>
  /\ saveCall = NoCall
  /\ savedAsNew = NoSaved

NextLoad ==
  \/ fetchResumesFulfilled
  \/ fetchResumesRejected
  \/ getSettingFulfilled
  \/ getSettingRejected
  \/ \E id \in Ids : fetchResumeByIdFulfilled(id)
  \/ \E id \in Ids : fetchResumeByIdRejected(id)
  \/ \E r \in Ids : handleSelectResume(r)
  \/ handleNewResume
  \/ handleCancel
  \/ handleSaveClick
  \/ \E input \in TypedNames : handleSave(input)
  \/ createResumeFulfilled
  \/ createResumeRejected
  \/ firstDefaultFulfilled
  \/ firstDefaultRejected
  \/ \E r \in Ids : handleTailorResume(r)
  \/ \E r \in Ids : handleDeleteResume(r)
  \/ deleteResumeFulfilled
  \/ deleteResumeRejected
  \/ deleteSettingFulfilled
  \/ deleteSettingRejected
  \/ \E r \in Ids : handleSetDefault(r)
  \/ setDefaultResumeFulfilled
  \/ setDefaultResumeRejected
  \/ \E u \in UrlInputs : Reload(u)

SpecLoad == InitLoad /\ [][NextLoad]_vars

\* ------------------------------------------------------------------ chat
\* the page is opened on a store that already holds resumes and the user
\* works with the chat: selecting, drafting, tailoring and saving
NextChat ==
  \/ fetchResumesFulfilled
  \/ getSettingFulfilled
  \/ getSettingRejected
  \/ \E id \in Ids : fetchResumeByIdFulfilled(id)
  \/ \E id \in Ids : fetchResumeByIdRejected(id)
  \/ \E r \in Ids : handleSelectResume(r)
  \/ \E r \in Ids : handleTailorResume(r)
  \/ handleNewResume
  \/ handleCancel
  \/ handleSaveClick
  \/ updateResumeFulfilled
  \/ updateResumeRejected
  \/ \E input \in TypedNames : handleSave(input)
  \/ createResumeFulfilled
  \/ createResumeRejected
  \/ handleSendMessage
  \/ \E i \in 1..MaxSends, c \in Contents, t \in Responses :
       sendChatMessageFulfilled(i, c, t)
  \/ \E i \in 1..MaxSends : sendChatMessageRejected(i)

SpecChat == InitLoad /\ [][NextChat]_vars

\* ---------------------------------------------------------------- rename
\* the page is opened on a store that already holds resumes and the user
\* renames them, while selecting, chatting and saving
NextRename ==
  \/ fetchResumesFulfilled
  \/ getSettingFulfilled
  \/ \E id \in Ids : fetchResumeByIdFulfilled(id)
  \/ \E id \in Ids : fetchResumeByIdRejected(id)
  \/ \E r \in Ids : handleSelectResume(r)
  \/ handleNewResume
  \/ \E r \in Ids : handleOpenRenameModal(r)
  \/ handleCancel
  \/ handleSaveClick
  \/ updateResumeFulfilled
  \/ updateResumeRejected
  \/ \E input \in NameInputs : handleSave(input)
  \/ renameFulfilled
  \/ renameRejected
  \/ createResumeFulfilled
  \/ createResumeRejected
  \/ handleSendMessage
  \/ \E i \in 1..MaxSends, c \in Contents, t \in Responses :
       sendChatMessageFulfilled(i, c, t)
  \/ \E i \in 1..MaxSends : sendChatMessageRejected(i)

SpecRename == InitLoad /\ [][NextRename]_vars

\* ---------------------------------------------------------------- storage
\* the page is opened on a store that holds a resume whose transcript was
\* stored by an earlier visit; the entry may be unreadable and localStorage
\* may throw on every access, while every request succeeds
StoredTranscript == <<UserMessage(Null), AssistantMessage("r", "c1")>>

InitStorage ==
  /\ db = [i \in Ids |-> IF i = 1
                           THEN [name |-> StoredName, resume_json |-> "c1",
                                 updated_at |-> 0]
                           ELSE NoData]
  /\ nextId = 2
  /\ clock = 0
  /\ defaultSetting = ServerSetDefault(1)
  /\ resumesQuery = [has |-> FALSE, list |-> [i \in Ids |-> NoData],
                     fetching |-> TRUE, pending |-> TRUE]
  /\ settingQuery = [state |-> "undefined", value |-> <<>>,
                     fetching |-> TRUE, pending |-> TRUE]
  /\ resumeQuery = [i \in Ids |-> [data |-> NoData, fetching |-> FALSE,
                                    invalid |-> FALSE]]
  /\ selectedResume = Undef
  /\ pageData = [chatMessages |-> <<>>, resume |-> Null]
  /\ showNameModal = FALSE
  /\ renameTarget = Undef
  /\ hasInitialized = FALSE
  /\ url = NoParam
  /\ localStorage \in {[i \in Ids |-> IF i = 1 THEN e ELSE Absent] :
                          e \in {StoredTranscript, Corrupt}}
  /\ mutation = Idle
  /\ chatCalls = <<>>
  /\ messages = <<>>
  /\ currentResume = Null
  /\ sends = 0
  /\ loads = 0
  /\ faults = 0
  /\ alerted = ""
  /\ error = ""
  /\ storageFails \in BOOLEAN
  /\ settings = <<>>
  /\ saveCall = NoCall
  /\ savedAsNew = NoSaved

NextStorage ==
  \/ fetchResumesFulfilled
  \/ getSettingFulfilled
  \/ \E id \in Ids : fetchResumeByIdFulfilled(id)
  \/ \E r \in Ids : handleSelectResume(r)
  \/ \E r \in Ids : handleTailorResume(r)
  \/ handleNewResume
  \/ handleCancel
  \/ handleSaveClick
  \/ updateResumeFulfilled
  \/ \E input \in TypedNames : handleSave(input)
  \/ createResumeFulfilled
  \/ firstDefaultFulfilled
  \/ \E r \in Ids : handleDeleteResume(r)
  \/ deleteResumeFulfilled
  \/ deleteSettingFulfilled

SpecStorage == InitStorage /\ [][NextStorage]_vars

\* a drafted resume on an empty Resume Store; the Setting Store holds no
\* snapshot or the snapshot of an earlier Save
InitSetting ==
  /\ db = [i \in Ids |-> NoData]
  /\ nextId = 1
  /\ clock = 0
  /\ defaultSetting = NoSetting
  /\ resumesQuery = [has |-> TRUE, list |-> [i \in Ids |-> NoData],
                     fetching |-> FALSE, pending |-> FALSE]
  /\ settingQuery = [state |-> "null", value |-> <<>>,
                     fetching |-> FALSE, pending |-> FALSE]
  /\ resumeQuery = [i \in Ids |-> [data |-> NoData, fetching |-> FALSE,
                                    invalid |-> FALSE]]
  /\ selectedResume = Undef
  /\ pageData \in {[chatMessages |-> <<>>, resume |-> c] :
                      c \in Contents \cup {Null}}
  /\ showNameModal = FALSE
  /\ renameTarget = Undef
  /\ hasInitialized = TRUE
  /\ url = NoParam
  /\ localStorage = [i \in Ids |-> Absent]
  /\ mutation = Idle
  /\ chatCalls = <<>>
  /\ messages = <<>>
  /\ currentResume = pageData.resume
  /\ sends = 0
  /\ loads = 0
  /\ faults = 0
  /\ alerted = ""
  /\ error = ""
  /\ storageFails = FALSE
  /\ settings \in {<<>>} \cup {<<[name |-> "resume", value |-> Stringify(c)]>> :
                                  c \in Contents}
  /\ saveCall = NoCall
  /\ savedAsNew = NoSaved

\* chatting and saving the snapshot of the draft to the Setting Store
NextSetting ==
  \/ handleSendMessage
  \/ \E i \in 1..MaxSends, c \in Contents, t \in Responses :
       sendChatMessageFulfilled(i, c, t)
  \/ \E i \in 1..MaxSends : sendChatMessageRejected(i)
  \/ handleNewResume
  \/ handleSaveResume
  \/ getByNameFulfilled
  \/ getByNameRejected
  \/ updateSettingFulfilled
  \/ updateSettingRejected
  \/ createSettingFulfilled
  \/ createSettingRejected

SpecSetting == InitSetting /\ [][NextSetting]_vars

\* ================================================================ properties

\* C1: while no resume is selected (selectedResume is undefined), the dirty
\* flag isEdited is true exactly when the draft holds content.
C1_DirtyOfNewDraft ==
  selectedResume = Undef => (isEdited <=> pageData.resume # Null)

\* a new draft that received content and is reported dirty
C1_Witness ==
  /\ hasInitialized /\ selectedResume = Undef
  /\ pageData.resume # Null /\ isEdited

\* C2: while a resume is selected, isEdited is true exactly when the draft
\* is not deep-equal to the last-fetched content of that resume; between
\* the selection and the fetch, or when the fetch failed, nothing equal to
\* the draft has been fetched, so a draft that differs from what the store
\* holds for the selected resume must be reported dirty.
C2_DirtyOfSelected ==
  selectedResume # Undef =>
    LET data == SelectedResumeData(selectedResume, resumeQuery)
    IN IF data # NoData
       THEN isEdited <=> ~DeepEqual(pageData.resume, data.resume_json)
       ELSE (/\ pageData.resume # Null
             /\ Exists(db, selectedResume)
             /\ ~DeepEqual(pageData.resume, db[selectedResume].resume_json))
              => isEdited

C4_InitializeOnce ==
  [][(/\ hasInitialized
      /\ \/ settingQuery.fetching /\ ~settingQuery'.fetching
         \/ resumesQuery.fetching /\ ~resumesQuery'.fetching)
       => hasInitialized' /\ selectedResume' = selectedResume]_vars

\* on the first page load the page learned, after its initialization, that
\* the resume created last became the default one, and it shows another
C4_Witness ==
  /\ loads = 0 /\ hasInitialized
  /\ settingQuery.state = "set" /\ ~settingQuery.fetching
  /\ DefaultResumeId(settingQuery) = MaxId
  /\ selectedResume # MaxId

\* C5: the response of a chat call whose draft context was left (New
\* Resume, Tailor, another selection, Delete) before it arrived does not
\* change the content of the draft.
C5_StaleResponseDropped ==
  [][\A i \in 1..Len(chatCalls) :
       (chatCalls[i].stale /\ chatCalls' = RemoveAt(chatCalls, i))
         => pageData'.resume = pageData.resume]_vars

\* C6: no create or update of the Resume Store starts while a chat call is
\* outstanding.
C6_NoSaveDuringChat ==
  [][~(/\ chatCalls # <<>>
       /\ mutation.kind = "idle"
       /\ mutation'.kind \in {"update", "create"})]_vars

\* C7: from the completion of SaveAsNew until the next user operation on
\* the draft, the created resume is selected, isEdited is false, and once
\* its fetch has resolved the draft is deep-equal to the content saved.
C7_RoundTrip ==
  savedAsNew.state = "saved" =>
    /\ selectedResume = savedAsNew.id
    /\ ~isEdited
    /\ SelectedResumeData(selectedResume, resumeQuery) # NoData
         => DeepEqual(pageData.resume, savedAsNew.resume_json)

\* C8: when SaveAsNew succeeds and the created resume is the only one the
\* Resume Store holds, the default resume setting names it.
C8_FirstResumeIsDefault ==
  [][(/\ savedAsNew' # savedAsNew
      /\ savedAsNew'.state = "saved"
      /\ \A i \in Ids \ {savedAsNew'.id} : db'[i] = NoData)
       => defaultSetting' = ServerSetDefault(savedAsNew'.id)]_vars

\* C9: a SaveAsNew on an empty store ends either as a success with the
\* resume stored and named by the default resume setting, or as a failure
\* with no resume stored and the setting unchanged.
C9_AtomicFirstCreate ==
  [][(/\ mutation.kind \in {"create", "firstDefault"}
      /\ mutation'.kind = "idle"
      /\ IF mutation.kind = "create" THEN IsEmptyList(db)
         ELSE \A i \in Ids \ {mutation.id} : db[i] = NoData)
       => \/ /\ savedAsNew'.state = "saved"
             /\ Exists(db', savedAsNew'.id)
             /\ defaultSetting' = ServerSetDefault(savedAsNew'.id)
          \/ /\ savedAsNew'.state = "failed"
             /\ IsEmptyList(db')
             /\ defaultSetting' = defaultSetting]_vars

\* C10: the step in which SaveAsNew reports a failure leaves the selection
\* (undefined when it was), the content and the transcript of the draft
\* and the stored transcripts as they were.
C10_FailureKeepsDraft ==
  [][(/\ mutation.kind \in {"create", "firstDefault"}
      /\ mutation'.kind = "idle"
      /\ savedAsNew'.state = "failed")
       => /\ selectedResume' = selectedResume
          /\ pageData' = pageData
          /\ localStorage' = localStorage
          /\ url' = url]_vars

\* a SaveAsNew failed and the unselected draft still holds the content and
\* a transcript
C10_Witness ==
  /\ savedAsNew.state = "failed"
  /\ selectedResume = Undef
  /\ pageData.resume = savedAsNew.resume_json
  /\ pageData.resume \in Contents
  /\ messages # <<>>

\* C11: Save with a resume selected (selectedResume defined) and content in
\* the draft opens no name prompt and sends one update carrying only the
\* content of the draft for the selected id; when the update succeeds only
\* the content of that resume changed in the Resume Store (not its name)
\* and the transcript of the draft is stored under that id.
C11_SaveUpdatesInPlace ==
  [][/\ (/\ selectedResume # Undef /\ pageData.resume # Null
         /\ ~showNameModal /\ showNameModal')
          => renameTarget' # Undef
     /\ (mutation.kind = "idle" /\ mutation'.kind = "update")
          => /\ mutation'.id = selectedResume
             /\ mutation'.resume_json = pageData.resume
             /\ mutation'.chat = pageData.chatMessages
     /\ (mutation.kind = "update" /\ mutation'.kind = "idle"
         /\ faults' = faults)
          => /\ db'[mutation.id].resume_json = mutation.resume_json
             /\ db'[mutation.id].name = db[mutation.id].name
             /\ \A i \in Ids \ {mutation.id} : db'[i] = db[i]
             /\ localStorage' = [localStorage EXCEPT
                                   ![mutation.id] = mutation.chat]]_vars

\* C12: on an unselected draft, the empty one right after New Resume
\* included, Save opens the name prompt, and the step that opens it sends
\* nothing to the Resume Store; a confirmed name that the Resume Store
\* accepts gives a resume of that name, and the resume list is refetched.
C12_SaveAsksForName ==
  /\ []((Interactive /\ selectedResume = Undef)
          => ENABLED (handleSaveClick /\ showNameModal'))
  /\ [][/\ ((selectedResume = Undef /\ ~showNameModal /\ showNameModal'
              /\ renameTarget' = Undef)
               => (mutation' = mutation /\ server' = server))
         /\ ((mutation.kind = "create" /\ nextId' # nextId)
               => (db'[nextId].name = mutation.name
                   /\ resumesQuery'.fetching))]_vars

\* C13: the step in which the update sent by Save fails alerts the user
\* and leaves the selection, the content and the transcript of the draft
\* and the stored transcripts as they were.
C13_SaveFailureKeepsDraft ==
  [][(mutation.kind = "update" /\ mutation'.kind = "idle"
      /\ faults' # faults)
       => /\ alerted' = "Failed to save resume. Please try again."
          /\ selectedResume' = selectedResume
          /\ pageData' = pageData
          /\ localStorage' = localStorage]_vars

\* the update of a loaded and edited resume failed: the edit is still in
\* the draft, reported dirty, and no transcript was stored for the resume
C13_Witness ==
  /\ alerted = "Failed to save resume. Please try again."
  /\ Truthy(selectedResume) /\ isEdited
  /\ mutation = Idle
  /\ localStorage[selectedResume] = Absent
  /\ db[selectedResume].resume_json # pageData.resume

\* C14: a rename that the Resume Store accepts changes only the name of the
\* resume, and neither its completion nor the refetch that brings the new
\* name to the page changes the content or the transcript of the draft or
\* the value of isEdited, also for the selected resume with unsaved edits.
C14_RenameKeepsDraft ==
  [][/\ ((mutation.kind = "rename" /\ mutation'.kind = "idle"
          /\ faults' = faults)
           => (/\ db'[mutation.id].name = mutation.name
               /\ db'[mutation.id].resume_json = db[mutation.id].resume_json
               /\ \A i \in Ids \ {mutation.id} : db'[i] = db[i]
               /\ pageData' = pageData
               /\ isEdited' = isEdited))
     /\ \A id \in Ids :
          (/\ resumeQuery[id].data # NoData
           /\ resumeQuery'[id].data # NoData
           /\ resumeQuery'[id].data.name # resumeQuery[id].data.name
           /\ resumeQuery'[id].data.resume_json
                = resumeQuery[id].data.resume_json)
            => (pageData' = pageData /\ isEdited' = isEdited)]_vars

\* C15: whenever no operation is in progress the default resume setting is
\* absent or names a resume the Resume Store holds, and a page load without
\* the URL parameter therefore selects nothing or a resume that exists.
C15_DefaultPointsToResume ==
  /\ [](mutation = Idle
          => (defaultSetting.present
                => Exists(db, ParseInt(defaultSetting.value))))
  /\ [][(~hasInitialized /\ hasInitialized' /\ ~url.present)
          => (selectedResume' = Undef \/ Exists(db, selectedResume'))]_vars

\* C16: the default resume setting is cleared only by a Delete whose
\* Resume Store delete has succeeded, and the step in which that delete
\* fails alerts the user and leaves the store, the setting, the stored
\* transcripts, the selection and the draft as they were.
C16_DeleteFailureKeepsAll ==
  [][/\ ((defaultSetting.present /\ ~defaultSetting'.present)
           => (mutation.kind = "deleteSetting"
               /\ ~Exists(db, mutation.id)))
     /\ ((mutation.kind = "delete" /\ mutation'.kind = "idle"
          /\ faults' # faults)
           => (/\ alerted' = "Failed to delete resume. Please try again."
               /\ server' = server
               /\ localStorage' = localStorage
               /\ selectedResume' = selectedResume
               /\ pageData' = pageData
               /\ url' = url))]_vars

\* the delete of the selected default resume, which has a stored
\* transcript, failed: all of it is still there
C16_Witness ==
  /\ alerted = "Failed to delete resume. Please try again."
  /\ mutation = Idle
  /\ Exists(db, selectedResume)
  /\ defaultSetting = ServerSetDefault(selectedResume)
  /\ localStorage[selectedResume] # Absent
  /\ pageData.resume = db[selectedResume].resume_json
  /\ url = UrlSet(selectedResume)

\* C17: when handleDeleteResume has finished and the resume it deleted from
\* the store was the selected one, the page is in the end-state of New
\* Resume (no selection, empty content, empty transcript, no query
\* parameter) and localStorage holds no transcript for the deleted id.
C17_DeleteSelectedEndsInNewDraft ==
  [][(/\ mutation.kind \in {"delete", "deleteSetting"}
      /\ mutation'.kind = "idle"
      /\ ~Exists(db', mutation.id)
      /\ selectedResume = mutation.id)
       => (/\ selectedResume' = Undef
           /\ pageData' = [chatMessages |-> <<>>, resume |-> Null]
           /\ url' = NoParam
           /\ localStorage'[mutation.id] = Absent)]_vars

C19_ListOrder ==
  \A order \in ResumeOrders(resumesQuery.list) :
    LET def == DefaultResumeId(settingQuery)
        s == sortedResumes(resumesQuery, order, def)
    IN resumesQuery.has =>
         /\ Len(s) = Len(order)
         /\ {s[k].id : k \in DOMAIN s} = {order[k] : k \in DOMAIN order}
         /\ (\E k \in DOMAIN s : s[k].id = def) => s[1].id = def
         /\ \A j, k \in DOMAIN s :
              (j < k /\ s[j].id # def /\ s[k].id # def)
                => s[j].updated_at >= s[k].updated_at

\* two listed resumes, neither the default, arrive older first and are
\* displayed newer first
C19_Witness ==
  /\ resumesQuery.has
  /\ \E order \in ResumeOrders(resumesQuery.list) :
       LET def == DefaultResumeId(settingQuery)
           s == sortedResumes(resumesQuery, order, def)
       IN /\ Len(order) >= 2
          /\ \A k \in DOMAIN order : order[k] # def
          /\ resumesQuery.list[order[1]].updated_at
               < resumesQuery.list[order[2]].updated_at
          /\ s[1].id = order[2]
          /\ s[2].id = order[1]

\* C20: every AI response that arrives replaces the content of the draft by
\* the content it carries, and when it carries a reply text an assistant
\* message with that text and that content is appended to the transcript of
\* the draft or to the transcript the chat shows.
C20_ApplyAiUpdate ==
  [][\A i \in 1..MaxSends, c \in Contents, t \in Responses :
       sendChatMessageFulfilled(i, c, t)
         => /\ pageData'.resume = c
            /\ t # ""
                 => \/ messages' = Append(messages, AssistantMessage(t, c))
                    \/ pageData'.chatMessages
                         = Append(pageData.chatMessages,
                                  AssistantMessage(t, c))]_vars

\* C21: the name prompt passes on a name only when the typed text is not
\* empty after trimming, and it passes on the trimmed text.  Saving an empty
\* or blank text shows the validation message, keeps the prompt open, starts
\* no request and changes nothing else on the page.
C21_NameValidation ==
  [][/\ \A input \in NameInputs :
          (handleSave(input) /\ Trim(input) = <<>>)
            => /\ error' = "Resume name is required"
               /\ showNameModal'
               /\ mutation' = mutation
               /\ server' = server
               /\ <<resumesQuery, settingQuery, resumeQuery>>'
                    = <<resumesQuery, settingQuery, resumeQuery>>
               /\ <<selectedResume, pageData, renameTarget, url,
                     localStorage, alerted>>'
                    = <<selectedResume, pageData, renameTarget, url,
                        localStorage, alerted>>
     /\ (mutation.kind = "idle" /\ mutation'.kind \in {"create", "rename"})
          => (mutation'.name \in Names
              /\ \E input \in NameInputs :
                   Trim(input) # <<>> /\ mutation'.name = Text(Trim(input)))
     /\ \A i \in Ids :
          (Exists(db', i) /\ db'[i].name # db[i].name)
            => db'[i].name \in Names]_vars

\* Save of a blank name in the prompt of Save as new: the message is shown,
\* the prompt is open and no request has started
C21_Witness ==
  /\ error = "Resume name is required"
  /\ showNameModal
  /\ mutation = Idle
  /\ selectedResume = Undef
  /\ pageData.resume # Null
  /\ \A i \in Ids : Exists(db, i) => db[i].name = StoredName

\* C22: when handleDeleteResume finishes after deleting a resume other than
\* the selected one, the selection, the content of the draft and its
\* transcript are what they were.
C22_DeleteOtherKeepsDraft ==
  [][(/\ mutation.kind \in {"delete", "deleteSetting"}
      /\ mutation'.kind = "idle"
      /\ faults' = faults
      /\ mutation.id # selectedResume)
       => (selectedResume' = selectedResume /\ pageData' = pageData)]_vars

\* C23: selecting a listed resume selects it and, while its fetch is in
\* flight, the loading state is shown; when the fetch of the selected resume
\* resolves, the selection stays, and the draft either holds the fetched
\* content and the stored transcript of that id, or the fetched data is the
\* cached data and the draft is left as it was.
C23_SelectLoads ==
  [][\A r \in Ids :
       /\ (hasInitialized /\ selectedResume # r /\ selectedResume' = r)
            => (resumeQuery'[r].fetching => selectedResumeLoading')
       /\ (selectedResume = r /\ resumeQuery[r].fetching
           /\ ~resumeQuery'[r].fetching /\ resumeQuery'[r].data = db[r]
           /\ faults' = faults /\ loads' = loads /\ Exists(db, r))
            => /\ selectedResume' = r
               /\ \/ pageData' = [chatMessages |->
                                     loadChatFromLocalStorage(localStorage, r),
                                   resume |-> db[r].resume_json]
                  \/ (resumeQuery'[r].data = resumeQuery[r].data
                      /\ pageData' = pageData)]_vars

C25_CacheFailuresNonFatal ==
  /\ [](/\ pageData.chatMessages \in {<<>>, StoredTranscript}
        /\ \A id \in Ids :
             (storageFails \/ localStorage[id] \in {Absent, Corrupt})
               => loadChatFromLocalStorage(localStorage, id) = <<>>
        /\ (Interactive /\ Truthy(selectedResume) /\ pageData.resume # Null
            /\ mutation = Idle)
             => ENABLED (handleSaveClick /\ mutation'.kind = "update"))
  /\ [][/\ (mutation.kind \in {"update", "create", "firstDefault", "delete",
                               "deleteSetting"}
            /\ mutation'.kind = "idle" /\ faults' = faults)
             => (/\ alerted' = alerted
                 /\ server' # server \/ mutation.kind = "create"
                 /\ storageFails => localStorage' = localStorage)
        /\ \A r \in Ids :
             (selectedResume = r /\ selectedResume' = r
              /\ resumeQuery[r].data = NoData /\ resumeQuery'[r].data # NoData
              /\ (storageFails \/ localStorage[r] = Corrupt))
               => pageData' = [chatMessages |-> <<>>,
                               resume |-> db[r].resume_json]]_vars

\* localStorage throws: the resume whose transcript is stored was loaded
\* with an empty transcript and saved, without an alert, and the stored
\* entry is the one of the earlier visit
C25_Witness ==
  /\ storageFails
  /\ selectedResume = 1
  /\ pageData = [chatMessages |-> <<>>, resume |-> "c1"]
  /\ localStorage[1] = StoredTranscript
  /\ db[1].updated_at > 0
  /\ mutation = Idle
  /\ alerted = ""

\* C26: a step that changes a stored resume or the default leaves the
\* cached list being refetched, and leaves the cached copy of each changed
\* resume marked invalid or being refetched; and a selection that is served
\* from the cache without a fetch shows what the store holds.
C26_CacheCoherence ==
  [][/\ (db' # db \/ (mutation.kind = "setDefault"
                       /\ mutation'.kind = "idle" /\ faults' = faults))
          => resumesQuery'.fetching
     /\ \A id \in Ids :
          /\ (db'[id] # db[id] /\ resumeQuery[id].data # NoData)
               => (resumeQuery'[id].invalid \/ resumeQuery'[id].fetching)
          /\ (hasInitialized /\ selectedResume # id /\ selectedResume' = id
              /\ resumeQuery[id].data # NoData
              /\ ~resumeQuery'[id].fetching)
               => resumeQuery[id].data = db[id]]_vars


\* C27: confirming the name prompt that Save opened on an unselected draft
\* always issues a create and never renames an existing resume, also after
\* a Rename prompt was cancelled or a Rename failed. The prompt branches on
\* renameTarget alone and no step changes renameTarget while the prompt
\* stays open, so the prompt that Save opens must carry no rename target,
\* and its confirmation must start a create.
C27_SaveAsCreates ==
  [][/\ (handleSaveClick /\ ~Truthy(selectedResume))
          => (showNameModal' /\ renameTarget' = Undef)
     /\ (showNameModal /\ showNameModal') => renameTarget' = renameTarget
     /\ \A input \in NameInputs :
          (handleSave(input) /\ ~showNameModal' /\ renameTarget = Undef)
            => (mutation'.kind = "create" /\ db' = db)]_vars


\* C28: Save never writes one resume's draft under another resume's id: the
\* content and the transcript of an update for id B were loaded from B or
\* produced while B was selected and loaded, also when Save is clicked
\* after B was selected and before its fetch resolved. Content loaded from
\* B, or produced while B was loaded, exists only once the fetch of B has
\* delivered data, so an update for B is sent only with B's data present,
\* and the draft it carries is the one the load effect made from B unless
\* the user has changed it since.
C28_SaveWritesOwnDraft ==
  [][(handleSaveClick /\ mutation'.kind = "update")
       => /\ resumeQuery[mutation'.id].data # NoData
          /\ ~isEdited
               => Stringify(mutation'.resume_json)
                    = Stringify(resumeQuery[mutation'.id].data.resume_json)
    ]_vars


\* C29: each successful AI Tailoring response appends at most one assistant
\* message to the chat transcript: the reply text when the response
\* carries one, otherwise the fallback status message, never both. A
\* response that arrives for a chat that is no longer mounted appends
\* nothing.
C29_OneAssistantMessage ==
  [][\A i \in 1..MaxSends, c \in Contents, t \in Responses :
       sendChatMessageFulfilled(i, c, t)
         => IF chatCalls[i].live
            THEN messages' =
                   Append(messages,
                          AssistantMessage(IF t # "" THEN t
                                           ELSE StatusMessage, c))
            ELSE messages' = messages]_vars

\* a transcript that holds a reply and, from a response without a reply,
\* the fallback status message
C29_Witness ==
  /\ \E k \in 1..Len(messages) :
       /\ messages[k].role = "assistant"
       /\ messages[k].content = StatusMessage
  /\ \A k \in 1..Len(messages) :
       messages[k].role = "assistant"
         => (k = 1 \/ messages[k - 1].role = "user")


\* C30: Setting Store set(name, value) on a name that already exists updates
\* that record and never issues a create: when the update request fails,
\* saveSetting reports a failure and sends no POST for a second record of
\* the same name.
C30_SetNeverCreatesTwice ==
  [][/\ updateSettingRejected => saveCall'.pc = "failed"
     /\ (saveCall.pc = "put" /\ saveCall'.pc # "put")
          => saveCall'.pc \in {"done", "failed"}
     /\ createSettingFulfilled
          => FindByName(settings, saveCall.name) = 0]_vars

====
